---- MODULE Spec2Model ----
(***************************************************************************)
(* XSUAA single sign-on callback (app/api/auth/xsuaa/route.ts), the        *)
(* session resolution endpoint (app/api/me/route.ts) and the three tables  *)
(* they share (lib/db/schema.ts: users, sessions, accounts).               *)
(*                                                                         *)
(* Every `await db...` of a handler is one step: the handlers run no       *)
(* transaction, so other requests interleave between any two statements.   *)
(* The code between two awaits runs without interruption (one JS thread).  *)
(***************************************************************************)
EXTENDS Integers, Sequences, FiniteSets, TLC

\* ------------------------------------------------------------------ bounds
\* SSO requests served in all.
MaxRequests == 2
\* Local sign-ups (the email/password path writing to the same users table).
MaxSignups == 1
\* Clock advances.
MaxTicks == 3
\* Longest id asked of generateId.
MaxLength == 2
\* SSO requests one browser sends one after the other.
MaxSequence == 3

\* --------------------------------------------------------------- constants
\* 7 * 24 * 60 * 60 * 1000 ms, the session lifetime.
SessionTTL == 604800000
\* Seconds an access token is taken to live when the provider does not say.
DefaultExpiresIn == 3600

Procs == {"p1", "p2"}

\* JavaScript undefined (an absent claim) and SQL NULL.
Undef == "undefined"
Null == "null"

\* generateId(): 32 characters from a secure random source, so every value
\* drawn is new. The value is named after the request that drew it and the
\* place in the code; NoId is the absent id or token.
Id(who, what) == <<who, what>>
NoId == <<>>

\* An email is <<local part, domain>>; NoEmail is an absent (or empty) claim.
NoEmail == <<>>
E1 == <<"alice", "corp.example">>

\* The decoded id_token payloads of the model: sub, user_id and email claims.
ClaimSets ==
    [sub : {Undef, "s1"}, user_id : {Undef, "s2"}, email : {NoEmail, E1}]

\* Emails local sign-ups use: the one the identity provider also asserts.
SignupEmails == {E1}

VARIABLES
    users,          \* rows of table users
    accounts,       \* rows of table accounts
    sessions,       \* rows of table sessions
    now,            \* the clock, in ms
    ticks,          \* clock advances so far
    signups,        \* local sign-ups so far
    localIds,       \* ids of the users the local path created (history)
    pc,             \* per worker: place in the SSO handler
    served,         \* per worker: requests taken so far
    claims,         \* per worker: decoded id_token payload
    user,           \* per worker: local `user` (set of at most one row)
    existingByEmail,\* per worker: local `existingByEmail`
    userId,         \* per worker: local `userId` of the create path
    path,           \* per worker: none, decoded, then subject | link | create (history)
    outcome,        \* per worker: the response
    cookie,         \* per worker: the session cookie set on the response
    writes,         \* per worker: the statements that changed a table (history)
    faulted,        \* per worker: a store fault hit this request (history)
    req,            \* per worker: the request taken: credentials, action, code (history)
    calls,          \* per worker: requests sent to the token endpoint (history)
    exchange,       \* per worker: how the token exchange went (history)
    cookieExpires,  \* per worker: the `expires` attribute of the cookie set
    rpc,            \* /api/me: place in the handler
    rcookie,        \* /api/me: the cookie value of the request
    rsession,       \* /api/me: local `session`
    rnow,           \* /api/me: the `new Date()` of the expiry check
    rres,           \* /api/me: the response
    greq,           \* middleware: the request
    gres,           \* middleware: the decision on the request, then on its replay
    gvalid,         \* middleware: at each decision, was the cookie a valid session (history)
    call,           \* lib: the last call of a library function: name, arguments, result
    vcap,           \* lib: the xsuaa credentials the process environment holds, if any
    cachedCredentials, \* lib/xsuaa/config.ts: module variable `cachedCredentials`
    found           \* lib: the first non-null result of a credentials lookup (history)

storeVars == <<users, accounts, sessions>>
envVars == <<now, ticks, signups, localIds>>
ssoVars == <<pc, served, claims, user, existingByEmail, userId, path, outcome,
             cookie, writes, faulted, req, calls, exchange, cookieExpires>>
meVars == <<rpc, rcookie, rsession, rnow, rres>>
gateVars == <<greq, gres, gvalid>>
libVars == <<call, vcap, cachedCredentials, found>>
vars == <<storeVars, envVars, ssoVars, meVars, gateVars, libVars>>

\* ------------------------------------------------------------ pure helpers
\* JavaScript `a || b` on claim strings: undefined and "" are falsy.
Falsy(v) == v = Undef \/ v = ""

OrElse(a, b) == IF Falsy(a) THEN b ELSE a

\* const xsuaaSubject = payload.sub || payload.user_id;
SubjectOf(c) == OrElse(c.sub, c.user_id)

\* `${xsuaaSubject}@sap.xsuaa`
SyntheticEmail(s) == <<s, "sap.xsuaa">>

\* const email = payload.email || `${xsuaaSubject}@sap.xsuaa`;
EmailOf(c) == IF c.email = NoEmail THEN SyntheticEmail(SubjectOf(c)) ELSE c.email

\* drizzle leaves an undefined value out of the statement: the column takes
\* its default, NULL.
ToColumn(v) == IF v = Undef THEN Null ELSE v

\* A driver that binds NULL for an undefined parameter.
RejectsUndefinedNever(v) == FALSE

\* The postgres driver (postgres.js, lib/db/index.ts) refuses a statement with
\* an undefined parameter (UNDEFINED_VALUE) instead of binding NULL.
RejectsUndefined(v) == v = Undef

\* ---------------------------------------------------------------- the store
\* db.select().from(users).where(eq(users.xsuaaSubject, s)).limit(1)
UsersBySubject(s) == {u \in users : u.xsuaaSubject = s /\ s # Null}

\* db.select().from(users).where(eq(users.email, e)).limit(1)
UsersByEmail(e) == {u \in users : u.email = e}

\* db.select().from(users).where(eq(users.id, id)).limit(1)
UsersById(id) == {u \in users : u.id = id}

\* db.select().from(sessions).where(eq(sessions.token, t)).limit(1)
SessionsByToken(t) == {s \in sessions : s.token = t}

\* The users table without the unique index on xsuaa_subject.
UsersInsertOKNoSubjectUnique(row) ==
    /\ \A u \in users : u.id # row.id /\ u.email # row.email

\* The users table without the unique index on email.
UsersInsertOKNoEmailUnique(row) ==
    /\ \A u \in users : u.id # row.id
    /\ row.xsuaaSubject = Null \/ \A u \in users : u.xsuaaSubject # row.xsuaaSubject

\* users: id primary key, email unique, xsuaa_subject unique (NULLs apart).
UsersInsertOK(row) ==
    /\ \A u \in users : u.id # row.id /\ u.email # row.email
    /\ row.xsuaaSubject = Null \/ \A u \in users : u.xsuaaSubject # row.xsuaaSubject

\* update users set xsuaa_subject = s where id = id: the unique index on
\* xsuaa_subject is checked against the other rows when a row matches.
UsersUpdateOK(id, s) ==
    \/ UsersById(id) = {}
    \/ \A u \in users : u.id # id => u.xsuaaSubject # s

\* The update without its where clause.
UsersAfterUpdateAll(id, s) ==
    {[u EXCEPT !.xsuaaSubject = s] : u \in users}

\* The link written as an insert of the linked row beside the old one.
UsersAfterUpdateAddsRow(id, s) ==
    users \cup {[u EXCEPT !.xsuaaSubject = s] : u \in UsersById(id)}

UsersAfterUpdate(id, s) ==
    {IF u.id = id THEN [u EXCEPT !.xsuaaSubject = s] ELSE u : u \in users}

\* accounts: id primary key, user_id references users, account_id not null.
AccountsInsertOK(row) ==
    /\ \A a \in accounts : a.id # row.id
    /\ UsersById(row.userId) # {}
    /\ row.accountId # Null

\* The sessions table without the foreign key on user_id.
SessionsInsertOKNoFK(row) ==
    \A s \in sessions : s.id # row.id /\ s.token # row.token

\* sessions: id primary key, token unique, user_id references users.
SessionsInsertOK(row) ==
    /\ \A s \in sessions : s.id # row.id /\ s.token # row.token
    /\ UsersById(row.userId) # {}

\* ------------------------------------------------------------------- Init
NoClaims == [sub |-> Undef, user_id |-> Undef, email |-> NoEmail]

NoResponse == [status |-> 0, error |-> "none", user |-> {}]

NoRequest == [xsuaa |-> FALSE, action |-> "none", code |-> Undef]

\* The cookie better-auth.session_token as the middleware reads it: absent,
\* or present with a value (NoId: the empty value).
NoCookie == [present |-> FALSE, value |-> NoId]

NoGateRequest ==
    [pathname |-> <<>>, cookie |-> NoCookie, authorization |-> Undef,
     xsuaaEnabled |-> FALSE]

\* The query parameters of the model: action (absent: "none") and code.
Actions == {"login", "callback", "other"}

Codes == {Undef, "", "code"}

\* No library function called yet.
NoCall == [fn |-> "none"]

\* The xsuaa service binding (VCAP_SERVICES) of the process environment: no
\* binding (null to the callers), or the credentials of one of two service
\* instances, <<xsappname, clientid>>.
NoCredentials == <<>>

Credentials == {<<"app", "c1">>, <<"app2", "c2">>}

Environments == {NoCredentials} \cup Credentials

Init ==
    /\ users = {} /\ accounts = {} /\ sessions = {}
    /\ now = 0 /\ ticks = 0 /\ signups = 0 /\ localIds = {}
    /\ pc = [p \in Procs |-> "idle"]
    /\ served = [p \in Procs |-> 0]
    /\ claims = [p \in Procs |-> NoClaims]
    /\ user = [p \in Procs |-> {}]
    /\ existingByEmail = [p \in Procs |-> {}]
    /\ userId = [p \in Procs |-> NoId]
    /\ path = [p \in Procs |-> "none"]
    /\ outcome = [p \in Procs |-> "none"]
    /\ cookie = [p \in Procs |-> NoId]
    /\ writes = [p \in Procs |-> <<>>]
    /\ faulted = [p \in Procs |-> FALSE]
    /\ req = [p \in Procs |-> NoRequest]
    /\ calls = [p \in Procs |-> 0]
    /\ exchange = [p \in Procs |-> "none"]
    /\ cookieExpires = [p \in Procs |-> 0]
    /\ rpc = "idle" /\ rcookie = NoId /\ rsession = {} /\ rnow = 0
    /\ rres = NoResponse
    /\ greq = NoGateRequest /\ gres = <<>> /\ gvalid = <<>>
    /\ call = NoCall /\ vcap = NoCredentials
    /\ cachedCredentials = NoCredentials /\ found = NoCredentials

\* ------------------------------------------------- the SSO handler (GET)
\* The handler returns a response: its locals are gone.
Finish(p, code) ==
    /\ pc' = [pc EXCEPT ![p] = "done"]
    /\ outcome' = [outcome EXCEPT ![p] = code]
    /\ user' = [user EXCEPT ![p] = {}]
    /\ existingByEmail' = [existingByEmail EXCEPT ![p] = {}]
    /\ userId' = [userId EXCEPT ![p] = NoId]

\* A handler without the try/catch: the rejection leaves the handler.
CatchNone(p) ==
    /\ Finish(p, "uncaught_exception")
    /\ UNCHANGED <<storeVars, envVars, served, claims, path, cookie, writes,
                   req, calls, exchange, cookieExpires, meVars, gateVars, libVars>>

\* } catch (error) { ... redirect(`/login?error=callback_failed`) }
Catch(p) ==
    /\ Finish(p, "callback_failed")
    /\ UNCHANGED <<storeVars, envVars, served, claims, path, cookie, writes,
                   req, calls, exchange, cookieExpires, meVars, gateVars, libVars>>

\* A statement the store fails (connection lost, timeout, ...): the awaited
\* promise rejects and nothing is written.
StoreFault(p) ==
    /\ faulted' = [faulted EXCEPT ![p] = TRUE]
    /\ Catch(p)

\* A statement the store or the driver refuses (constraint, bad parameter).
Refused(p) ==
    /\ UNCHANGED faulted
    /\ Catch(p)

Logged(p, table, op, id) ==
    writes' = [writes EXCEPT ![p] = Append(@, [table |-> table, op |-> op, id |-> id])]

\* Requests taken so far by all workers.
RECURSIVE Sum(_, _)
Sum(f, S) == IF S = {} THEN 0 ELSE LET x == CHOOSE y \in S : TRUE
                                   IN  f[x] + Sum(f, S \ {x})

Requests == Sum(served, Procs)

\* A handler that looks at the action before the credentials.
DispatchActionFirst(xsuaa, action, code) ==
    IF action = "login" THEN IF xsuaa THEN "authorize" ELSE "xsuaa_not_configured"
    ELSE IF action = "callback" THEN
        IF Falsy(code) THEN "no_code"
        ELSE IF xsuaa THEN "fetch" ELSE "xsuaa_not_configured"
    ELSE "invalid_action"

\* A handler without the check of the code parameter.
DispatchNoCodeCheck(xsuaa, action, code) ==
    IF ~xsuaa THEN "xsuaa_not_configured"
    ELSE IF action = "login" THEN "authorize"
    ELSE IF action = "callback" THEN "fetch"
    ELSE "invalid_action"

\* Lines 19-45 and 184: where a request goes before the first await, "fetch"
\* being the token exchange and every other value a response.
Dispatch(xsuaa, action, code) ==
    IF ~xsuaa THEN "xsuaa_not_configured"
    ELSE IF action = "login" THEN "authorize"
    ELSE IF action = "callback" THEN
        IF Falsy(code) THEN "no_code" ELSE "fetch"
    ELSE "invalid_action"

\* Lines 19-45: a request arrives, fewer than `most` having arrived before
\* it; everything before the first await.
BeginWithin(p, most) ==
    /\ pc[p] \in {"idle", "done"}
    /\ Requests < most
    /\ served' = [served EXCEPT ![p] = @ + 1]
    /\ claims' = [claims EXCEPT ![p] = NoClaims]
    /\ path' = [path EXCEPT ![p] = "none"]
    /\ cookie' = [cookie EXCEPT ![p] = NoId]
    /\ cookieExpires' = [cookieExpires EXCEPT ![p] = 0]
    /\ writes' = [writes EXCEPT ![p] = <<>>]
    /\ faulted' = [faulted EXCEPT ![p] = FALSE]
    /\ calls' = [calls EXCEPT ![p] = 0]
    /\ exchange' = [exchange EXCEPT ![p] = "none"]
    /\ \E xsuaa \in BOOLEAN, action \in Actions, code \in Codes :
          /\ req' = [req EXCEPT ![p] =
                       [xsuaa |-> xsuaa, action |-> action, code |-> code]]
          /\ LET to == Dispatch(xsuaa, action, code)
             IN  IF to = "fetch"
                 THEN /\ pc' = [pc EXCEPT ![p] = "fetch"]
                      /\ outcome' = [outcome EXCEPT ![p] = "none"]
                      /\ UNCHANGED <<user, existingByEmail, userId>>
                 ELSE Finish(p, to)
    /\ UNCHANGED <<storeVars, envVars, meVars, gateVars, libVars>>

Begin(p) == BeginWithin(p, MaxRequests)

\* How the one request to the token endpoint and the reading of its answer
\* can go: fetch rejects (network fault); a non-success status whose body is
\* read, or whose body cannot be read (text() rejects); a success status
\* whose body or id_token cannot be decoded; a success status with claims.
ExchangeResults == {"rejects", "not_ok", "not_ok_unread", "undecodable", "ok"}

\* Lines 51-75: what the handler does with the result.
ExchangeOutcome(result) ==
    CASE result = "ok" -> "decoded"
      [] result = "not_ok" -> "token_exchange_failed"
      [] OTHER -> "callback_failed"

\* Lines 51-81: the token exchange and the decoding of the id_token.
Exchange(p) ==
    /\ pc[p] = "fetch"
    /\ calls' = [calls EXCEPT ![p] = @ + 1]
    /\ \E result \in ExchangeResults :
         /\ exchange' = [exchange EXCEPT ![p] = result]
         /\ IF ExchangeOutcome(result) = "decoded"
            THEN /\ \E c \in ClaimSets : claims' = [claims EXCEPT ![p] = c]
                 /\ path' = [path EXCEPT ![p] = "decoded"]
                 /\ pc' = [pc EXCEPT ![p] = "selSubject"]
                 /\ UNCHANGED <<outcome, user, existingByEmail, userId>>
            ELSE /\ Finish(p, ExchangeOutcome(result))
                 /\ UNCHANGED <<claims, path>>
    /\ UNCHANGED <<storeVars, envVars, served, cookie, cookieExpires, writes,
                   faulted, req, meVars, gateVars, libVars>>

\* Lines 84-91: look the user up by subject.
SelectBySubject(p) ==
    /\ pc[p] = "selSubject"
    /\ LET s == SubjectOf(claims[p])
           rows == UsersBySubject(ToColumn(s))
       IN  \/ StoreFault(p)
           \/ RejectsUndefined(s) /\ Refused(p)
           \/ /\ ~RejectsUndefined(s)
              /\ user' = [user EXCEPT ![p] = rows]
              /\ IF rows # {}
                 THEN /\ path' = [path EXCEPT ![p] = "subject"]
                      /\ pc' = [pc EXCEPT ![p] = "insSession"]
                 ELSE /\ pc' = [pc EXCEPT ![p] = "selEmail"]
                      /\ UNCHANGED path
              /\ UNCHANGED <<storeVars, envVars, served, claims, existingByEmail,
                             userId, outcome, cookie, writes, faulted, req,
                             calls, exchange, cookieExpires, meVars, gateVars, libVars>>

\* Lines 93-100: look the user up by email.
SelectByEmail(p) ==
    /\ pc[p] = "selEmail"
    /\ LET rows == UsersByEmail(EmailOf(claims[p]))
       IN  \/ StoreFault(p)
           \/ /\ existingByEmail' = [existingByEmail EXCEPT ![p] = rows]
              /\ pc' = [pc EXCEPT ![p] = IF rows # {} THEN "updUser" ELSE "insUser"]
              /\ UNCHANGED <<storeVars, envVars, served, claims, user, userId, path,
                             outcome, cookie, writes, faulted, req, calls,
                             exchange, cookieExpires, meVars, gateVars, libVars>>

\* Lines 102-106: link the subject to the user found by email.
UpdateUser(p) ==
    /\ pc[p] = "updUser"
    /\ LET s == SubjectOf(claims[p])
       IN  \/ StoreFault(p)
           \/ \E e \in existingByEmail[p] :
                IF s # Undef /\ UsersUpdateOK(e.id, s)
                THEN /\ users' = UsersAfterUpdate(e.id, s)
                     /\ user' = [user EXCEPT ![p] = {[e EXCEPT !.xsuaaSubject = s]}]
                     /\ Logged(p, "users", "update", e.id)
                     /\ path' = [path EXCEPT ![p] = "link"]
                     /\ pc' = [pc EXCEPT ![p] = "insSession"]
                     /\ UNCHANGED <<accounts, sessions, envVars, served,
                                    claims, existingByEmail, userId, outcome,
                                    cookie, faulted, req, calls, exchange,
                                    cookieExpires, meVars, gateVars, libVars>>
                ELSE Refused(p)

\* The users row without emailVerified: the column's default, false.
NewUserUnverified(id, c) ==
    [id |-> id, email |-> EmailOf(c), emailVerified |-> FALSE,
     xsuaaSubject |-> ToColumn(SubjectOf(c))]

\* The users row of lines 112-120.
NewUser(id, c) ==
    [id |-> id, email |-> EmailOf(c), emailVerified |-> TRUE,
     xsuaaSubject |-> ToColumn(SubjectOf(c))]

\* Lines 109-120: create the user.
InsertUser(p) ==
    /\ pc[p] = "insUser"
    /\ LET row == NewUser(Id(<<p, served[p]>>, "userId"), claims[p])
       IN  \/ StoreFault(p)
           \/ IF UsersInsertOK(row)
              THEN /\ users' = users \cup {row}
                   /\ userId' = [userId EXCEPT ![p] = row.id]
                   /\ Logged(p, "users", "insert", row.id)
                   /\ path' = [path EXCEPT ![p] = "create"]
                   /\ pc' = [pc EXCEPT ![p] = "insAccount"]
                   /\ UNCHANGED <<accounts, sessions, envVars, served, claims, user,
                                  existingByEmail, outcome, cookie, faulted,
                                  req, calls, exchange, cookieExpires, meVars, gateVars, libVars>>
              ELSE Refused(p)

\* The accounts row of lines 123-133.
NewAccount(id, uid, c) ==
    [id |-> id, userId |-> uid, accountId |-> ToColumn(SubjectOf(c)),
     providerId |-> "xsuaa"]

\* Lines 123-145: record the provider account of the new user.
InsertAccount(p) ==
    /\ pc[p] = "insAccount"
    /\ LET row == NewAccount(Id(<<p, served[p]>>, "accountId"), userId[p], claims[p])
       IN  \/ StoreFault(p)
           \/ IF AccountsInsertOK(row)
              THEN /\ accounts' = accounts \cup {row}
                   /\ user' = [user EXCEPT ![p] =
                                 {[NewUser(userId[p], claims[p])
                                     EXCEPT !.xsuaaSubject = SubjectOf(claims[p])]}]
                   /\ Logged(p, "accounts", "insert", row.id)
                   /\ pc' = [pc EXCEPT ![p] = "insSession"]
                   /\ UNCHANGED <<users, sessions, envVars, served, claims,
                                  existingByEmail, userId, path, outcome, cookie,
                                  faulted, req, calls, exchange, cookieExpires,
                                  meVars, gateVars, libVars>>
              ELSE Refused(p)

\* A session that expires the moment it is minted.
NewSessionNoTTL(id, token, uid, t) ==
    [id |-> id, userId |-> uid, token |-> token, expiresAt |-> t]

\* The sessions row of lines 150-163.
NewSession(id, token, uid, t) ==
    [id |-> id, userId |-> uid, token |-> token, expiresAt |-> t + SessionTTL]

\* Lines 150-177: mint the session, set the cookie, redirect to /dashboard.
InsertSession(p) ==
    /\ pc[p] = "insSession"
    /\ \/ StoreFault(p)
       \/ \E u \in user[p] :
            LET row == NewSession(Id(<<p, served[p]>>, "sessionId"),
                               Id(<<p, served[p]>>, "sessionToken"), u.id, now)
            IN  IF SessionsInsertOK(row)
                THEN /\ sessions' = sessions \cup {row}
                     /\ cookie' = [cookie EXCEPT ![p] = row.token]
                     /\ cookieExpires' = [cookieExpires EXCEPT ![p] = row.expiresAt]
                     /\ Logged(p, "sessions", "insert", row.id)
                     /\ Finish(p, "dashboard")
                     /\ UNCHANGED <<users, accounts, envVars, served, claims,
                                    path, faulted, req, calls, exchange, meVars, gateVars, libVars>>
                ELSE Refused(p)

\* ------------------------------------------- session resolution (/api/me)
Respond(status, error, u) ==
    /\ rres' = [status |-> status, error |-> error, user |-> u]
    /\ rsession' = {}
    /\ rpc' = "done"

\* A check that never finds a session expired.
ExpiredNever(s, t) == FALSE

\* if (new Date(session.expiresAt) < new Date())
Expired(s, t) == s.expiresAt < t

\* Lines 7-11: a request arrives with some cookie value, or none.
MeBegin ==
    /\ rpc \in {"idle", "done"}
    /\ \E c \in {NoId, Id(<<"client", 0>>, "forged")} \cup {s.token : s \in sessions} :
         /\ rcookie' = c
         /\ rnow' = 0
         /\ IF c = NoId
            THEN Respond(401, "No session", {})
            ELSE rpc' = "selSession" /\ rres' = NoResponse /\ rsession' = {}
    /\ UNCHANGED <<storeVars, envVars, ssoVars, gateVars, libVars>>

\* A lookup that deletes the expired row it finds (eager expiry).
MeSelectSessionEager ==
    /\ rpc = "selSession"
    /\ LET rows == SessionsByToken(rcookie)
       IN  \/ Respond(500, "Internal error", {}) /\ UNCHANGED <<rnow, storeVars>>
           \/ /\ rows = {}
              /\ Respond(401, "Invalid session", {})
              /\ UNCHANGED <<rnow, storeVars>>
           \/ \E s \in rows :
                /\ rnow' = now
                /\ IF Expired(s, now)
                   THEN /\ Respond(401, "Session expired", {})
                        /\ sessions' = sessions \ {s}
                        /\ UNCHANGED <<users, accounts>>
                   ELSE /\ rpc' = "selUser" /\ rsession' = {s}
                        /\ UNCHANGED <<rres, storeVars>>
    /\ UNCHANGED <<rcookie, envVars, ssoVars, gateVars, libVars>>

\* Lines 15-29: look the session up by token, then check its expiry.
MeSelectSession ==
    /\ rpc = "selSession"
    /\ LET rows == SessionsByToken(rcookie)
       IN  \/ Respond(500, "Internal error", {}) /\ UNCHANGED rnow
           \/ /\ rows = {}
              /\ Respond(401, "Invalid session", {})
              /\ UNCHANGED rnow
           \/ \E s \in rows :
                /\ rnow' = now
                /\ IF Expired(s, now)
                   THEN Respond(401, "Session expired", {})
                   ELSE rpc' = "selUser" /\ rsession' = {s} /\ UNCHANGED rres
    /\ UNCHANGED <<rcookie, storeVars, envVars, ssoVars, gateVars, libVars>>

\* Lines 32-56: look the owning user up and answer.
MeSelectUser ==
    /\ rpc = "selUser"
    /\ \E s \in rsession :
         LET rows == UsersById(s.userId)
         IN  \/ Respond(500, "Internal error", {})
             \/ rows = {} /\ Respond(401, "User not found", {})
             \/ rows # {} /\ Respond(200, "none", rows)
    /\ UNCHANGED <<rcookie, rnow, storeVars, envVars, ssoVars, gateVars, libVars>>

\* ------------------------------------------- the session gate (middleware)
\* A pathname is the sequence of its characters.
StartsWith(s, prefix) ==
    Len(prefix) <= Len(s) /\ SubSeq(s, 1, Len(prefix)) = prefix

Includes(s, ch) == \E i \in 1..Len(s) : s[i] = ch

RootPath == <<"/">>
LoginPath == <<"/", "l", "o", "g", "i", "n">>
SignupPath == <<"/", "s", "i", "g", "n", "u", "p">>
ApiAuthPath == <<"/", "a", "p", "i", "/", "a", "u", "t", "h">>
ApiHealthPath == <<"/", "a", "p", "i", "/", "h", "e", "a", "l", "t", "h">>
ApiMePath == <<"/", "a", "p", "i", "/", "m", "e">>
NextPrefix == <<"/", "_", "n", "e", "x", "t">>
StaticPrefix == <<"/", "s", "t", "a", "t", "i", "c">>
FaviconPath == <<"/", "f", "a", "v", "i", "c", "o", "n", ".", "i", "c", "o">>
ApiPrefix == <<"/", "a", "p", "i", "/">>

\* const publicRoutes = ['/', '/login', '/signup', '/api/auth', '/api/health', '/api/me'];
publicRoutes ==
    {RootPath, LoginPath, SignupPath, ApiAuthPath, ApiHealthPath, ApiMePath}

\* The pathnames of the model: /, /login, /loginx, /api/auth/x, /dashboard,
\* /api/users, /d.js and /_next/d.
GatePaths ==
    {RootPath, LoginPath, LoginPath \o <<"x">>, ApiAuthPath \o <<"/", "x">>,
     <<"/", "d", "a", "s", "h", "b", "o", "a", "r", "d">>,
     ApiPrefix \o <<"u", "s", "e", "r", "s">>,
     <<"/", "d", ".", "j", "s">>, NextPrefix \o <<"/", "d">>}

\* The cookies a request to the middleware can carry.
GateCookies ==
    {NoCookie, [present |-> TRUE, value |-> NoId],
     [present |-> TRUE, value |-> Id(<<"client", 0>>, "forged")]}
    \cup {[present |-> TRUE, value |-> x.token] : x \in sessions}

\* The authorization header: absent, or a bearer token.
AuthHeaders == {Undef, "Bearer t"}

\* NextResponse.next(), with the x-xsuaa-token header it may add.
PassThrough(token) ==
    [kind |-> "next", to |-> <<>>, callbackUrl |-> <<>>, xsuaaToken |-> token]

\* NextResponse.redirect(loginUrl) with callbackUrl = pathname.
RedirectToLogin(pathname) ==
    [kind |-> "redirect", to |-> LoginPath, callbackUrl |-> pathname,
     xsuaaToken |-> Undef]

\* publicRoutes.some(route => pathname === route || pathname.startsWith(`${route}/`))
IsPublicRoute(pathname) ==
    \E route \in publicRoutes :
        pathname = route \/ StartsWith(pathname, route \o <<"/">>)

\* The cookie names a session row that has not expired.
ValidSession(c) ==
    \E x \in sessions : c.present /\ x.token = c.value /\ ~Expired(x, now)

\* A gate that validates the session against the store.
MiddlewareValidating(r) ==
    IF IsPublicRoute(r.pathname) THEN PassThrough(Undef)
    ELSE IF ~ValidSession(r.cookie) THEN RedirectToLogin(r.pathname)
    ELSE PassThrough(Undef)

\* middleware(request), steps.md lines 797-844.
Middleware(r) ==
    IF \/ StartsWith(r.pathname, NextPrefix)
       \/ StartsWith(r.pathname, StaticPrefix)
       \/ Includes(r.pathname, ".")
       \/ r.pathname = FaviconPath
    THEN PassThrough(Undef)
    ELSE IF /\ r.xsuaaEnabled
            /\ ~Falsy(r.authorization)
            /\ StartsWith(r.pathname, ApiPrefix)
    THEN PassThrough(r.authorization)
    ELSE IF IsPublicRoute(r.pathname) THEN PassThrough(Undef)
    ELSE IF ~r.cookie.present \/ r.cookie.value = NoId
         THEN RedirectToLogin(r.pathname)
    ELSE PassThrough(Undef)

\* A request reaches the middleware.
GateHandle ==
    /\ \E pathname \in GatePaths, c \in GateCookies, a \in AuthHeaders,
          enabled \in BOOLEAN :
         LET r == [pathname |-> pathname, cookie |-> c, authorization |-> a,
                   xsuaaEnabled |-> enabled]
         IN  /\ greq' = r
             /\ gres' = <<Middleware(r)>>
             /\ gvalid' = <<ValidSession(c)>>
    /\ UNCHANGED <<storeVars, envVars, ssoVars, meVars, libVars>>

\* The same request reaches the middleware again.
GateReplay ==
    /\ Len(gres) = 1
    /\ gres' = Append(gres, Middleware(greq))
    /\ gvalid' = Append(gvalid, ValidSession(greq.cookie))
    /\ UNCHANGED <<greq, storeVars, envVars, ssoVars, meVars, libVars>>

\* ------------------------------------------------------- the environment
\* Time passes: a millisecond, or all but a millisecond of a session's life.
Tick ==
    /\ ticks < MaxTicks
    /\ ticks' = ticks + 1
    /\ \E d \in {1, SessionTTL - 1} :
         /\ now + d <= SessionTTL + MaxTicks
         /\ now' = now + d
    /\ UNCHANGED <<storeVars, signups, localIds, ssoVars, meVars, gateVars, libVars>>

\* The email/password path registers a user: no subject, email unverified.
\* (Its credential accounts row, provider "credential", is left out: the
\* statements below read accounts rows of provider "xsuaa" only.)
SignUp ==
    /\ signups < MaxSignups
    /\ \E e \in SignupEmails :
         LET row == [id |-> Id(<<"local", signups>>, "id"), email |-> e, emailVerified |-> FALSE,
                     xsuaaSubject |-> Null]
         IN  /\ UsersInsertOK(row)
             /\ users' = users \cup {row}
             /\ localIds' = localIds \cup {row.id}
    /\ signups' = signups + 1
    /\ UNCHANGED <<accounts, sessions, now, ticks, ssoVars, meVars, gateVars, libVars>>

\* A user is deleted (an administrator, or the account's owner): the rows of
\* sessions and accounts that reference it go with it (onDelete: 'cascade').
DeleteUser ==
    /\ \E u \in users :
         /\ users' = users \ {u}
         /\ sessions' = {x \in sessions : x.userId # u.id}
         /\ accounts' = {a \in accounts : a.userId # u.id}
    /\ UNCHANGED <<envVars, ssoVars, meVars, gateVars, libVars>>

\* ------------------------------------------- library functions, called
\* Text that is built from pieces (a template literal, trim) is the sequence
\* of its non-empty pieces; the piece " " is one space.
Pieces(t) == SelectSeq(t, LAMBDA x : x # "")

RECURSIVE TrimStart(_)
TrimStart(t) == IF t # <<>> /\ Head(t) = " " THEN TrimStart(Tail(t)) ELSE t

RECURSIVE TrimEnd(_)
TrimEnd(t) ==
    IF t # <<>> /\ t[Len(t)] = " " THEN TrimEnd(SubSeq(t, 1, Len(t) - 1)) ELSE t

\* String.prototype.trim
Trim(t) == TrimEnd(TrimStart(t))

\* `${a} ${b}`: an undefined value is interpolated as the text "undefined".
Template(a, b) == Pieces(<<a, " ", b>>)

\* email.split('@')[0]
LocalPart(e) == e[1]

\* Lines 79-81: const name = payload.given_name
\*   ? `${payload.given_name} ${payload.family_name}`.trim()
\*   : payload.user_name || email.split('@')[0];
NameOf(c) ==
    IF ~Falsy(c.given_name) THEN Trim(Template(c.given_name, c.family_name))
    ELSE IF ~Falsy(c.user_name) THEN <<c.user_name>>
    ELSE <<LocalPart(EmailOf(c))>>

\* Decoded id_token payloads with the name claims.
TokenPayloads ==
    [sub : {Undef, "s1"}, user_id : {Undef, "s2"}, email : {NoEmail, E1},
     given_name : {Undef, "", "Ada"}, family_name : {Undef, "", "Lovelace"},
     user_name : {Undef, "", "ada"}]

\* Lines 77-81 on one payload.
DeriveUser ==
    /\ \E c \in TokenPayloads :
         call' = [fn |-> "deriveUser", arg |-> c,
                  result |-> [xsuaaSubject |-> SubjectOf(c), email |-> EmailOf(c),
                              name |-> NameOf(c)]]
    /\ UNCHANGED <<storeVars, envVars, ssoVars, meVars, gateVars, vcap,
                   cachedCredentials, found>>

\* Line 8: const chars = 'ABC...XYZabc...xyz0123456789';
chars ==
    <<"A", "B", "C", "D", "E", "F", "G", "H", "I", "J", "K", "L", "M",
      "N", "O", "P", "Q", "R", "S", "T", "U", "V", "W", "X", "Y", "Z",
      "a", "b", "c", "d", "e", "f", "g", "h", "i", "j", "k", "l", "m",
      "n", "o", "p", "q", "r", "s", "t", "u", "v", "w", "x", "y", "z",
      "0", "1", "2", "3", "4", "5", "6", "7", "8", "9">>

\* An element of a Uint8Array.
Uint8 == 0 .. 255

\* The values crypto.getRandomValues fills in, in the model: the two ends of
\* the range, the last index of chars, and the first value that wraps around
\* (0 and 62 meet modulo chars.length).
RandomBytes == {0, 61, 62, 255}

\* A loop that stops one character short.
GenerateIdShort(randomValues) ==
    [i \in 1 .. Len(randomValues) - 1 |->
        chars[(randomValues[i] % Len(chars)) + 1]]

\* Lines 7-16: generateId(length), given what getRandomValues put into
\* randomValues (length bytes): result += chars[randomValues[i] % chars.length]
\* (chars[k] of the code is chars[k + 1] here).
GenerateId(randomValues) ==
    [i \in 1 .. Len(randomValues) |->
        chars[(randomValues[i] % Len(chars)) + 1]]

\* generateId is called; the call before it is kept beside it.
GenerateIdCall ==
    /\ \E length \in 1 .. MaxLength :
         \E randomValues \in [1 .. length -> RandomBytes] :
             call' = [fn |-> "generateId",
                      arg |-> [length |-> length, randomValues |-> randomValues],
                      result |-> GenerateId(randomValues),
                      before |-> IF call.fn = "generateId"
                                 THEN <<[randomValues |-> call.arg.randomValues,
                                         result |-> call.result]>>
                                 ELSE <<>>]
    /\ UNCHANGED <<storeVars, envVars, ssoVars, meVars, gateVars, vcap,
                   cachedCredentials, found>>

\* tokens.expires_in of the token response, in seconds: <<>> when the
\* provider leaves it out, else <<n>>.
ExpiresIn == {<<>>, <<0>>, <<1>>, <<3600>>, <<43200>>}

\* The readings of Date.now() of the model, in ms.
Instants == {0, 1, 999, 1000, SessionTTL}

\* Line 130: accessTokenExpiresAt:
\*   new Date(Date.now() + (tokens.expires_in || 3600) * 1000)
\* (`||` takes the right side for undefined and for 0).
AccessTokenExpiresAt(dateNow, expires_in) ==
    dateNow + (IF expires_in = <<>> \/ expires_in[1] = 0
               THEN DefaultExpiresIn ELSE expires_in[1]) * 1000

\* Line 130 for one token response at one instant.
AccountExpiry ==
    /\ \E t \in Instants, e \in ExpiresIn :
         call' = [fn |-> "accessTokenExpiresAt",
                  arg |-> [dateNow |-> t, expires_in |-> e],
                  result |-> AccessTokenExpiresAt(t, e)]
    /\ UNCHANGED <<storeVars, envVars, ssoVars, meVars, gateVars, vcap,
                   cachedCredentials, found>>

\* The environment of the process changes: the xsuaa binding appears, goes
\* away or is replaced (process.env is writable while the process runs).
EnvChange ==
    /\ \E e \in Environments \ {vcap} : vcap' = e
    /\ UNCHANGED <<storeVars, envVars, ssoVars, meVars, gateVars, call,
                   cachedCredentials, found>>

\* lib/xsuaa/config.ts lines 16-38, getXsuaaConfig(): what it returns, which
\* is also what cachedCredentials holds afterwards. With a cached value the
\* environment is not read; without one, xsenv reads it, and no binding
\* (getServices throws, or services.xsuaa is empty) gives null.
ConfigOf(cached, environment) ==
    IF cached # NoCredentials THEN cached ELSE environment

\* A credentials lookup is recorded: its result, whether it read the
\* environment, and whether an earlier lookup had already found credentials.
Looked(fn, result, read) ==
    /\ call' = [fn |-> fn, result |-> result, read |-> read,
                later |-> found # NoCredentials]
    /\ found' = IF found = NoCredentials THEN result ELSE found

\* getXsuaaConfig() is called.
GetXsuaaConfig ==
    /\ cachedCredentials' = ConfigOf(cachedCredentials, vcap)
    /\ Looked("getXsuaaConfig", ConfigOf(cachedCredentials, vcap),
              cachedCredentials = NoCredentials)
    /\ UNCHANGED <<storeVars, envVars, ssoVars, meVars, gateVars, vcap>>

\* lib/env.ts lines 68-76, getXsuaaCredentials(): VCAP_SERVICES is parsed on
\* every call; the SSO route handler calls it on every request (line 19).
GetXsuaaCredentials ==
    /\ Looked("getXsuaaCredentials", vcap, TRUE)
    /\ UNCHANGED <<storeVars, envVars, ssoVars, meVars, gateVars, vcap,
                   cachedCredentials>>

\* ---- lib/xsuaa/security-context.ts: xsuaaMiddleware and the handler behind
\* A header value is text (its pieces); <<>> is the empty value and also the
\* absent header, which the code below does not tell apart (!token, !userId,
\* userEmail || undefined, ?.split(',').filter(Boolean) || []).
RECURSIVE RemoveFirst(_, _)
RemoveFirst(t, x) ==
    IF t = <<>> THEN <<>>
    ELSE IF Head(t) = x THEN Tail(t)
    ELSE <<Head(t)>> \o RemoveFirst(Tail(t), x)

\* scopes.join(',')
RECURSIVE JoinComma(_)
JoinComma(scopes) ==
    IF Len(scopes) <= 1 THEN scopes
    ELSE <<Head(scopes), ",">> \o JoinComma(Tail(scopes))

\* value.split(',').filter(Boolean): the pieces between the commas (a piece
\* of the model holds no comma and is not empty).
SplitComma(t) == SelectSeq(t, LAMBDA x : x # ",")

\* Authorization headers: none, a bearer token the provider issued, a bearer
\* token it did not, the bare scheme, another scheme.
Authorizations ==
    {<<>>, <<"Bearer ", "good">>, <<"Bearer ", "bad">>, <<"Bearer ">>,
     <<"Basic ", "good">>}

\* The x-xsuaa-* headers as the client sends them: none, or an identity of
\* its choosing.
ClientHeaders ==
    {[id |-> <<>>, email |-> <<>>, scopes |-> <<>>],
     [id |-> <<"mallory">>, email |-> <<"mallory@corp.example">>,
      scopes |-> <<"admin">>]}

\* The inbound requests.
LibRequests ==
    {[authorization |-> a, id |-> c.id, email |-> c.email, scopes |-> c.scopes] :
        a \in Authorizations, c \in ClientHeaders}

\* What validateXsuaaToken returns for the token the provider issued:
\* logon name, email (there or not) and granted scopes.
SecurityContexts ==
    {[id |-> <<"alice">>, email |-> <<"alice@corp.example">>,
      scopes |-> <<"read", "write">>],
     [id |-> <<"alice">>, email |-> <<>>, scopes |-> <<>>]}

\* Lines 74-75: const token = authHeader?.replace('Bearer ', '');
TokenOf(authorization) == RemoveFirst(authorization, "Bearer ")

\* Lines 11-41 and 81-82: validateXsuaaToken(token) returns a user for the
\* token the provider issued and null for any other; the dynamic import or
\* the call may also throw.
Validations(token) ==
    IF token = <<"good">>
    THEN {[kind |-> "user", user |-> <<u>>] : u \in SecurityContexts}
         \cup {[kind |-> "throws", user |-> <<>>]}
    ELSE {[kind |-> "null", user |-> <<>>], [kind |-> "throws", user |-> <<>>]}

Answer(kind, headers) == [kind |-> kind, headers |-> headers]

\* Lines 68-102: xsuaaMiddleware(request): null when XSUAA is not enabled,
\* 401 without a token or with one that does not validate, 500 when the
\* validation throws, else NextResponse.next with the request's headers and
\* the three x-xsuaa-* headers set from the validated user.
XsuaaMiddleware(request, enabled, validation) ==
    IF ~enabled THEN Answer("null", <<>>)
    ELSE IF TokenOf(request.authorization) = <<>> THEN Answer("401", <<>>)
    ELSE IF validation.kind = "throws" THEN Answer("500", <<>>)
    ELSE IF validation.kind = "null" THEN Answer("401", <<>>)
    ELSE LET validated == validation.user[1]
         IN  Answer("next",
                    <<[request EXCEPT !.id = validated.id,
                                      !.email = validated.email,
                                      !.scopes = JoinComma(validated.scopes)]>>)

\* Lines 104-118: getXsuaaUserFromHeaders(headers); <<>> is null.
GetXsuaaUserFromHeaders(headers) ==
    IF headers.id = <<>> THEN <<>>
    ELSE <<[id |-> headers.id, email |-> headers.email,
            scopes |-> SplitComma(headers.scopes)]>>

\* The headers the handler behind the middleware sees: those the middleware
\* forwards, or the request's own when the middleware stands aside (null);
\* none when the middleware answered.
Forwarded(request, answer) ==
    IF answer.kind = "next" THEN answer.headers
    ELSE IF answer.kind = "null" THEN <<request>>
    ELSE <<>>

\* A request goes through xsuaaMiddleware and, when it is let through, the
\* handler behind reads the user from its headers. isXsuaaEnabled() (config.ts
\* lines 40-42) reads XSUAA_ENABLED and, when it is 'true', getXsuaaConfig().
XsuaaMiddlewareCall ==
    /\ \E flag \in BOOLEAN, request \in LibRequests :
         LET config == ConfigOf(cachedCredentials, vcap)
             enabled == flag /\ config # NoCredentials
         IN  /\ cachedCredentials' = IF flag THEN config ELSE cachedCredentials
             /\ found' = IF flag /\ found = NoCredentials THEN config ELSE found
             /\ \E validation \in Validations(TokenOf(request.authorization)) :
                  LET answer == XsuaaMiddleware(request, enabled, validation)
                      seen == Forwarded(request, answer)
                  IN  call' = [fn |-> "xsuaaMiddleware",
                               arg |-> [request |-> request, flag |-> flag],
                               enabled |-> enabled,
                               validation |-> IF enabled
                                                 /\ TokenOf(request.authorization) # <<>>
                                              THEN validation.kind ELSE "none",
                               validated |-> IF enabled
                                                /\ TokenOf(request.authorization) # <<>>
                                             THEN validation.user ELSE <<>>,
                               answer |-> answer,
                               user |-> IF seen = <<>> THEN <<>>
                                        ELSE GetXsuaaUserFromHeaders(seen[1])]
    /\ UNCHANGED <<storeVars, envVars, ssoVars, meVars, gateVars, vcap>>

\* ---- lib/xsuaa/security-context.ts: scope checks
\* A scope name is text: "read" is <<"read">>, "app.read" is
\* <<"app", ".", "read">>.
Xsappname(config) == config[1]

\* The scopes a user can have been granted: local names and names qualified
\* with the xsappname of either service instance.
GrantedScopes ==
    {<<"read">>, <<"admin">>, <<"app", ".", "read">>, <<"app", ".", "admin">>,
     <<"app2", ".", "write">>}

\* The scope names asked for.
ScopeNames == {"read", "write", "admin"}

\* A check that knows local scope names only.
CheckScopeLocalOnly(config, scopes, scope) ==
    IF config = NoCredentials THEN FALSE
    ELSE <<scope>> \in scopes

\* Lines 43-51: checkScope(user, scope), given what getXsuaaConfig() returned:
\*   if (!xsuaaConfig) return false;
\*   const fullScope = `${xsuaaConfig.xsappname}.${scope}`;
\*   return user.scopes.includes(localScope) || user.scopes.includes(fullScope);
\* (localScope is scope).
CheckScope(config, scopes, scope) ==
    IF config = NoCredentials THEN FALSE
    ELSE LET fullScope == Pieces(<<Xsappname(config), ".", scope>>)
         IN  Pieces(<<scope>>) \in scopes \/ fullScope \in scopes

\* Lines 53-63.
HasReadAccess(config, scopes) == CheckScope(config, scopes, "read")

HasWriteAccess(config, scopes) == CheckScope(config, scopes, "write")

HasAdminAccess(config, scopes) == CheckScope(config, scopes, "admin")

\* One of the four checks is called for a user; checkScope calls
\* getXsuaaConfig(), which fills the cache when it finds credentials.
CheckScopeCall ==
    /\ \E scopes \in SUBSET GrantedScopes :
         LET config == ConfigOf(cachedCredentials, vcap)
             Called(fn, scope, result) ==
                 call' = [fn |-> fn, arg |-> [scopes |-> scopes, scope |-> scope],
                          config |-> config, result |-> result]
         IN  /\ cachedCredentials' = config
             /\ found' = IF found = NoCredentials THEN config ELSE found
             /\ \/ \E scope \in ScopeNames :
                     Called("checkScope", scope, CheckScope(config, scopes, scope))
                \/ Called("hasReadAccess", "read", HasReadAccess(config, scopes))
                \/ Called("hasWriteAccess", "write", HasWriteAccess(config, scopes))
                \/ Called("hasAdminAccess", "admin", HasAdminAccess(config, scopes))
    /\ UNCHANGED <<storeVars, envVars, ssoVars, meVars, gateVars, vcap>>

\* ----------------------------------------------------- the specifications
\* The SSO handler serving concurrent requests beside local sign-ups.
Next ==
    \/ \E p \in Procs : Begin(p)
    \/ \E p \in Procs : Exchange(p)
    \/ \E p \in Procs : SelectBySubject(p)
    \/ \E p \in Procs : SelectByEmail(p)
    \/ \E p \in Procs : UpdateUser(p)
    \/ \E p \in Procs : InsertUser(p)
    \/ \E p \in Procs : InsertAccount(p)
    \/ \E p \in Procs : InsertSession(p)
    \/ SignUp

Spec == Init /\ [][Next]_vars

\* Session resolution beside the first SSO login, with time passing.
MeWorker == "p1"

FirstLogin(p) == served[p] = 0 /\ Begin(p)

NextMe ==
    \/ FirstLogin(MeWorker)
    \/ Exchange(MeWorker)
    \/ SelectBySubject(MeWorker)
    \/ SelectByEmail(MeWorker)
    \/ UpdateUser(MeWorker)
    \/ InsertUser(MeWorker)
    \/ InsertAccount(MeWorker)
    \/ InsertSession(MeWorker)
    \/ SignUp
    \/ MeBegin
    \/ MeSelectSession
    \/ MeSelectUser
    \/ Tick

SpecMe == Init /\ [][NextMe]_vars

\* Session resolution beside the first SSO login, with time passing and
\* users being deleted.
NextDel ==
    \/ FirstLogin(MeWorker)
    \/ Exchange(MeWorker)
    \/ SelectBySubject(MeWorker)
    \/ SelectByEmail(MeWorker)
    \/ UpdateUser(MeWorker)
    \/ InsertUser(MeWorker)
    \/ InsertAccount(MeWorker)
    \/ InsertSession(MeWorker)
    \/ SignUp
    \/ DeleteUser
    \/ MeBegin
    \/ MeSelectSession
    \/ MeSelectUser
    \/ Tick

SpecDel == Init /\ [][NextDel]_vars

\* One browser beside local sign-ups: it logs in through SSO, time passes,
\* and while no login of its is under way one request of its goes through
\* the middleware, twice.
Quiet == pc[MeWorker] \in {"idle", "done"}

NextGate ==
    \/ FirstLogin(MeWorker)
    \/ Exchange(MeWorker)
    \/ SelectBySubject(MeWorker)
    \/ SelectByEmail(MeWorker)
    \/ UpdateUser(MeWorker)
    \/ InsertUser(MeWorker)
    \/ InsertAccount(MeWorker)
    \/ InsertSession(MeWorker)
    \/ SignUp
    \/ Tick
    \/ Quiet /\ gres = <<>> /\ GateHandle
    \/ Quiet /\ GateReplay

SpecGate == Init /\ [][NextGate]_vars

\* One SSO login beside local sign-ups, with progress: a statement sent to
\* the store is answered (or fails) and the handler's continuation then runs.
\* Nothing makes the token endpoint answer, and the handler's fetch (lines
\* 51-62) carries no signal and no timer: Exchange has no fairness.
NextLive ==
    \/ FirstLogin(MeWorker)
    \/ Exchange(MeWorker)
    \/ SelectBySubject(MeWorker)
    \/ SelectByEmail(MeWorker)
    \/ UpdateUser(MeWorker)
    \/ InsertUser(MeWorker)
    \/ InsertAccount(MeWorker)
    \/ InsertSession(MeWorker)
    \/ SignUp

StoreSteps(p) ==
    \/ SelectBySubject(p)
    \/ SelectByEmail(p)
    \/ UpdateUser(p)
    \/ InsertUser(p)
    \/ InsertAccount(p)
    \/ InsertSession(p)

SpecLive == Init /\ [][NextLive]_vars /\ WF_vars(StoreSteps(MeWorker))

\* SSO requests served one after the other: each begins when the one before
\* it has been answered.
NextSeq ==
    \/ BeginWithin(MeWorker, MaxSequence)
    \/ Exchange(MeWorker)
    \/ SelectBySubject(MeWorker)
    \/ SelectByEmail(MeWorker)
    \/ UpdateUser(MeWorker)
    \/ InsertUser(MeWorker)
    \/ InsertAccount(MeWorker)
    \/ InsertSession(MeWorker)

SpecSeq == Init /\ [][NextSeq]_vars

\* The library functions, called one after another with every argument.
NextFn ==
    \/ DeriveUser
    \/ GenerateIdCall
    \/ AccountExpiry

SpecFn == Init /\ [][NextFn]_vars

\* One process whose environment changes while the functions that depend on
\* the xsuaa configuration are called.
NextLib ==
    \/ EnvChange
    \/ GetXsuaaConfig
    \/ GetXsuaaCredentials
    \/ XsuaaMiddlewareCall
    \/ CheckScopeCall

SpecLib == Init /\ [][NextLib]_vars

\* ================================================================ claims
\* Helpers of the claims: what a finished request did.
Done(p) == pc[p] = "done"

Succeeded(p) == Done(p) /\ outcome[p] = "dashboard"

\* The user a finished request's cookie belongs to.
CookieUserIds(p) == {s.userId : s \in SessionsByToken(cookie[p])}

WritesTo(p, table) == {i \in 1..Len(writes[p]) : writes[p][i].table = table}

\* The rows of the store a request wrote.
RowsWrittenBy(p) ==
    {r \in users \cup accounts \cup sessions :
        \E i \in 1..Len(writes[p]) : writes[p][i].id = r.id}

AccountsOf(uid) == {a \in accounts : a.providerId = "xsuaa" /\ a.userId = uid}

\* Two requests, the only two so far, both finished without a store fault,
\* with the same subject, which no user carried before them and whose
\* derived emails no local user has.
BrandNewRace(p, q) ==
    /\ p # q /\ Done(p) /\ Done(q)
    /\ served[p] = 1 /\ served[q] = 1
    /\ path[p] # "none" /\ path[q] # "none"
    /\ SubjectOf(claims[p]) # Undef
    /\ SubjectOf(claims[p]) = SubjectOf(claims[q])
    /\ ~faulted[p] /\ ~faulted[q]
    /\ \A u \in users :
         u.id \in localIds => u.email \notin {EmailOf(claims[p]), EmailOf(claims[q])}

\* C1: two SSO callbacks with the same brand-new subject, in any
\* interleaving, leave exactly one users row carrying the subject and exactly
\* one xsuaa accounts row for it.
C1_OneUserOneAccount ==
    \A p, q \in Procs :
        BrandNewRace(p, q) =>
            LET s == SubjectOf(claims[p])
            IN  /\ Cardinality({u \in users : u.xsuaaSubject = s}) = 1
                /\ Cardinality({a \in accounts :
                                  a.providerId = "xsuaa" /\ a.accountId = s}) = 1

\* Both requests missed both lookups; the second insert was refused.
C1_Witness ==
    \E p, q \in Procs :
        /\ BrandNewRace(p, q)
        /\ Succeeded(p) /\ path[p] = "create"
        /\ outcome[q] = "callback_failed"
        /\ EmailOf(claims[p]) # EmailOf(claims[q])

\* C2 (as claimed): in such a race both requests end with a session cookie
\* for the same user; none ends with an error redirect.
C2_LoserRetries ==
    \A p, q \in Procs :
        BrandNewRace(p, q) =>
            /\ Succeeded(p) /\ Succeeded(q)
            /\ CookieUserIds(p) = CookieUserIds(q)

\* C3: no two users rows share an email, none share a non-null subject.
C3_UniqueEmailAndSubject ==
    \A u, v \in users :
        u # v =>
            /\ u.id # v.id
            /\ u.email # v.email
            /\ u.xsuaaSubject # Null => u.xsuaaSubject # v.xsuaaSubject

\* A local user and an SSO user exist, and an insert or update was refused.
C3_Witness ==
    /\ \E u, v \in users : u.id \in localIds /\ v.id \notin localIds
    /\ \E p \in Procs :
         /\ Done(p) /\ outcome[p] = "callback_failed" /\ ~faulted[p]
         /\ SubjectOf(claims[p]) # Undef /\ path[p] # "none"

\* The steps of a request the claims speak about.
LinkStep(p) == pc[p] = "updUser" /\ pc'[p] = "insSession"

SubjectHit(p) == pc[p] = "selSubject" /\ pc'[p] = "insSession"

CreateUserStep(p) == pc[p] = "insUser" /\ pc'[p] = "insAccount"

CreateAccountStep(p) == pc[p] = "insAccount" /\ pc'[p] = "insSession"

\* C4: linking leaves exactly one row for the email, with the id it had and
\* now the subject, and adds or removes no row; a callback that finds its
\* subject resolves to the row carrying it and writes nothing to users.
C4_Link ==
    /\ [][\A p \in Procs :
            /\ LinkStep(p) =>
                 \E e \in existingByEmail[p] :
                    /\ {u \in users' : u.email = EmailOf(claims[p])}
                         = {[e EXCEPT !.xsuaaSubject = SubjectOf(claims[p])]}
                    /\ {u.id : u \in users'} = {u.id : u \in users}
                    /\ Cardinality(users') = Cardinality(users)
            /\ SubjectHit(p) =>
                 /\ users' = users
                 /\ user'[p] = {u \in users : u.xsuaaSubject = SubjectOf(claims[p])}
                 /\ Cardinality(user'[p]) = 1]_vars
    /\ [](\A p \in Procs : path[p] = "subject" => WritesTo(p, "users") = {})

\* One request linked a local user, the other then found it by subject.
C4_Witness ==
    \E p, q \in Procs :
        /\ Succeeded(p) /\ path[p] = "link"
        /\ Succeeded(q) /\ path[q] = "subject"
        /\ SubjectOf(claims[p]) = SubjectOf(claims[q])
        /\ CookieUserIds(p) = CookieUserIds(q)
        /\ CookieUserIds(p) \subseteq localIds
        /\ Cardinality(users) = 1

\* C5: a callback whose subject and email match no user adds exactly one
\* users row (emailVerified, the subject) and exactly one accounts row
\* (provider xsuaa, accountId the subject, userId the new user's id).
C5_Provision ==
    /\ [][\A p \in Procs :
            /\ CreateUserStep(p) =>
                 /\ users \subseteq users'
                 /\ users' \ users =
                      {[id |-> userId'[p], email |-> EmailOf(claims[p]),
                        emailVerified |-> TRUE,
                        xsuaaSubject |-> SubjectOf(claims[p])]}
                 /\ accounts' = accounts
            /\ CreateAccountStep(p) =>
                 /\ accounts \subseteq accounts'
                 /\ \E a \in accounts' \ accounts :
                      /\ accounts' \ accounts = {a}
                      /\ a.providerId = "xsuaa"
                      /\ a.accountId = SubjectOf(claims[p])
                      /\ a.userId = userId[p]
                 /\ users' = users]_vars
    /\ [](\A p \in Procs :
            Succeeded(p) /\ path[p] = "create" =>
                /\ Cardinality(WritesTo(p, "users")) = 1
                /\ Cardinality(WritesTo(p, "accounts")) = 1
                /\ \A uid \in CookieUserIds(p) :
                     /\ Cardinality(UsersById(uid)) = 1
                     /\ Cardinality(AccountsOf(uid)) = 1)

C5_Witness ==
    \E p \in Procs :
        /\ Succeeded(p) /\ path[p] = "create"
        /\ Cardinality(users) = 1 /\ Cardinality(accounts) = 1

\* C6 (as claimed): a request that ends with callback_failed leaves no row
\* it wrote in the store.
C6_Atomic ==
    \A p \in Procs :
        Done(p) /\ outcome[p] = "callback_failed" => RowsWrittenBy(p) = {}

\* C7: claims with neither sub nor user_id: the request ends with the
\* callback_failed redirect at the first lookup, sets no cookie and writes
\* nothing.
MissingSubject(p) ==
    path[p] # "none" /\ claims[p].sub = Undef /\ claims[p].user_id = Undef

C7_MissingSubject ==
    \A p \in Procs :
        MissingSubject(p) =>
            /\ pc[p] \in {"selSubject", "done"}
            /\ Done(p) => outcome[p] = "callback_failed"
            /\ cookie[p] = NoId
            /\ writes[p] = <<>>
            /\ path[p] = "decoded"

\* The driver refused the lookup while a user with the derived email exists.
C7_Witness ==
    \E p \in Procs :
        /\ MissingSubject(p) /\ Done(p) /\ ~faulted[p]
        /\ outcome[p] = "callback_failed"
        /\ users # {}

\* C8 (as claimed): after a successful callback the resolved user owns
\* exactly one xsuaa accounts row.
C8_OneAccountPerUser ==
    \A p \in Procs :
        Succeeded(p) =>
            \A uid \in CookieUserIds(p) : Cardinality(AccountsOf(uid)) = 1

\* C9 (as claimed): every callback that reaches reconciliation makes at most
\* one users write, at most one accounts insert and exactly one sessions
\* insert.
C9_ExactlyOneSession ==
    \A p \in Procs :
        Done(p) /\ path[p] # "none" =>
            /\ Cardinality(WritesTo(p, "users")) <= 1
            /\ Cardinality(WritesTo(p, "accounts")) <= 1
            /\ Cardinality(WritesTo(p, "sessions")) = 1

\* The ids of the rows a step changed, added or removed.
Changed(old, new) == {r.id : r \in (old \ new) \cup (new \ old)}

\* The ids a step of p logged for a table.
NewlyLogged(p, table) ==
    {writes'[p][i].id : i \in {j \in (Len(writes[p]) + 1)..Len(writes'[p]) :
                                 writes'[p][j].table = table}}

\* C9 (amended): at most one users write, at most one accounts insert, at
\* most one sessions insert, which is made exactly when the request ends
\* with the success redirect; no step of a request changes any other row.
C9_Writes ==
    /\ [](\A p \in Procs :
            /\ Cardinality(WritesTo(p, "users")) <= 1
            /\ Cardinality(WritesTo(p, "accounts")) <= 1
            /\ Cardinality(WritesTo(p, "sessions")) <= 1
            /\ Succeeded(p) <=> Cardinality(WritesTo(p, "sessions")) = 1)
    /\ [][\A p \in Procs :
            pc'[p] # pc[p] /\ pc[p] \notin {"idle", "done"} =>
                /\ Changed(users, users') \subseteq NewlyLogged(p, "users")
                /\ Changed(accounts, accounts') \subseteq NewlyLogged(p, "accounts")
                /\ Changed(sessions, sessions') \subseteq NewlyLogged(p, "sessions")
                /\ Len(writes'[p]) <= Len(writes[p]) + 1]_vars

\* A request that wrote all three tables beside one that wrote none.
C9_Witness ==
    \E p, q \in Procs :
        /\ Succeeded(p) /\ Len(writes[p]) = 3
        /\ Done(q) /\ outcome[q] = "no_code" /\ writes[q] = <<>>

\* C10 (as claimed): short of a store fault, session resolution returns the
\* user exactly when a session row has the cookie's token, the time of the
\* check is strictly before its expiresAt, and its user exists.
C10_ValidIffBeforeExpiry ==
    rpc = "done" /\ rres.status # 500 =>
        (rres.status = 200 <=>
            \E s \in SessionsByToken(rcookie) :
                rnow < s.expiresAt /\ UsersById(s.userId) # {})

\* C11: a cookie is set only by the step that inserts the Session row: its
\* value is that row's token, the row is owned by the resolved user and
\* expires SessionTTL after minting, the cookie's expiry is the row's
\* expiresAt; and resolving the cookie value before that expiry, short of a
\* store fault, returns that user.
C11_CookieAfterSession ==
    /\ [](\A p \in Procs :
            cookie[p] # NoId =>
                /\ Succeeded(p)
                /\ \E s \in sessions :
                     s.token = cookie[p] /\ s.expiresAt = cookieExpires[p])
    /\ [][\A p \in Procs :
            cookie'[p] # cookie[p] /\ cookie'[p] # NoId =>
                /\ outcome'[p] = "dashboard"
                /\ SessionsByToken(cookie'[p]) = {}
                /\ \E u \in user[p], s \in sessions' :
                     /\ sessions' \ sessions = {s}
                     /\ s.token = cookie'[p]
                     /\ s.userId = u.id
                     /\ s.expiresAt = now + SessionTTL
                     /\ cookieExpires'[p] = s.expiresAt]_vars
    /\ [](\A p \in Procs :
            /\ rpc = "done" /\ rres.status # 500
            /\ rcookie # NoId /\ rcookie = cookie[p]
            /\ rnow < cookieExpires[p]
            => /\ rres.status = 200
               /\ {u.id : u \in rres.user} = CookieUserIds(p)
               /\ Cardinality(rres.user) = 1)

\* A session minted after time had passed, resolved later but before expiry.
C11_Witness ==
    \E p \in Procs :
        /\ rpc = "done" /\ rres.status = 200 /\ rcookie = cookie[p]
        /\ cookieExpires[p] > SessionTTL
        /\ rnow > cookieExpires[p] - SessionTTL
        /\ rnow < cookieExpires[p]

\* The request the middleware decided carries a session cookie with a value.
CookiePresent == greq.cookie.present /\ greq.cookie.value # NoId

\* The paths the middleware passes as assets before any other check.
AssetPath(pathname) ==
    \/ StartsWith(pathname, NextPrefix)
    \/ StartsWith(pathname, StaticPrefix)
    \/ Includes(pathname, ".")
    \/ pathname = FaviconPath

\* C12 (as claimed, asset paths counted with the public ones): a request
\* whose path is not under a public prefix is let through only with a
\* non-empty session cookie, whatever its other headers; without the cookie
\* it is redirected to /login with callbackUrl the original path.
C12_GateNeedsCookie ==
    \A i \in 1..Len(gres) :
        ~IsPublicRoute(greq.pathname) /\ ~AssetPath(greq.pathname) =>
            /\ gres[i].kind = "next" => CookiePresent
            /\ ~greq.cookie.present => gres[i] = RedirectToLogin(greq.pathname)

\* C13: the decision on a request is the same whenever it is taken, whatever
\* the store holds then; a public path passes with or without a cookie; a
\* non-empty cookie value passes, valid session or not.
C13_GateIgnoresStore ==
    /\ \A i, j \in 1..Len(gres) : gres[i] = gres[j]
    /\ \A i \in 1..Len(gres) :
         /\ IsPublicRoute(greq.pathname) => gres[i].kind = "next"
         /\ CookiePresent => gres[i].kind = "next"

\* A protected path passed with the cookie of a session that was valid at the
\* first decision and had expired at the second.
C13_Witness ==
    /\ Len(gres) = 2 /\ gvalid = <<TRUE, FALSE>>
    /\ ~IsPublicRoute(greq.pathname)
    /\ ~greq.xsuaaEnabled /\ ~AssetPath(greq.pathname)
    /\ gres[2].kind = "next"

\* C14: session resolution checks token presented, session found, not
\* expired, owner found, in this order; each failed check answers 401 with
\* its own error and no user data; 500 comes only from a statement the store
\* fails.
C14_ChecksInOrder ==
    /\ [](/\ rres.status \in {0, 200, 401, 500}
          /\ rres.status \in {401, 500} => rres.user = {}
          /\ rres.status = 500 <=> rres.error = "Internal error"
          /\ rres.status = 401 =>
                rres.error \in {"No session", "Invalid session",
                                "Session expired", "User not found"})
    /\ [][/\ rpc \in {"idle", "done"} /\ meVars' # meVars =>
                IF rcookie' = NoId
                THEN rpc' = "done" /\ rres' = [status |-> 401, error |-> "No session", user |-> {}]
                ELSE rpc' = "selSession" /\ rres' = NoResponse
          /\ rpc = "selSession" /\ rpc' # rpc =>
                \/ rres'.status = 500
                \/ /\ SessionsByToken(rcookie) = {}
                   /\ rres' = [status |-> 401, error |-> "Invalid session", user |-> {}]
                \/ \E x \in SessionsByToken(rcookie) :
                     /\ x.expiresAt < now
                     /\ rres' = [status |-> 401, error |-> "Session expired", user |-> {}]
                \/ \E x \in SessionsByToken(rcookie) :
                     /\ ~(x.expiresAt < now)
                     /\ rpc' = "selUser" /\ rsession' = {x} /\ rres' = NoResponse
          /\ rpc = "selUser" /\ rpc' # rpc =>
                \E x \in rsession :
                    \/ rres'.status = 500
                    \/ /\ UsersById(x.userId) = {}
                       /\ rres' = [status |-> 401, error |-> "User not found", user |-> {}]
                    \/ /\ UsersById(x.userId) # {}
                       /\ rres' = [status |-> 200, error |-> "none",
                                   user |-> UsersById(x.userId)]]_vars

\* The owner of a session was deleted between the two lookups.
C14_Witness ==
    rpc = "done" /\ rres.status = 401 /\ rres.error = "User not found"

\* C15: no step of session resolution changes a table, whatever the cookie
\* and the outcome; the row of a session found expired is still there.
C15_ReadOnly ==
    /\ [][meVars' # meVars => UNCHANGED storeVars]_vars
    /\ [](rpc = "done" /\ rres.error = "Session expired" =>
            \E x \in SessionsByToken(rcookie) : x.expiresAt < rnow)

C15_Witness ==
    /\ rpc = "done" /\ rres.error = "Session expired"
    /\ \E x \in SessionsByToken(rcookie) : x.expiresAt < now
    /\ users # {}

\* Every session row's owner exists.
SessionsOwned == \A x \in sessions : UsersById(x.userId) # {}

\* C16 (as claimed): every session row's owner exists in every reachable
\* state, and session resolution never answers with the orphaned-session
\* outcome.
C16_NeverOrphaned ==
    SessionsOwned /\ ~(rpc = "done" /\ rres.error = "User not found")

\* C16 (amended): every session row's owner exists in every reachable state;
\* session resolution answers with the orphaned-session outcome only when
\* the session it had found is gone from the store with its owner.
C16_SessionsOwned ==
    /\ []SessionsOwned
    /\ [][rpc = "selUser" /\ rres'.error = "User not found" =>
            \A x \in rsession :
                x \notin sessions /\ UsersById(x.userId) = {}]_vars

\* A callback linked its user, the user was deleted, and the session insert
\* was refused.
C16_Witness ==
    \E p \in Procs :
        /\ Done(p) /\ outcome[p] = "callback_failed" /\ ~faulted[p]
        /\ path[p] = "link" /\ Len(writes[p]) = 1
        /\ users = {} /\ sessions = {}

\* The request worker p took last.
Took(p) == served[p] > 0

\* C17: without credentials every request, whatever its action and code, is
\* answered at once with the xsuaa_not_configured redirect: no call to the
\* token endpoint, no write, no cookie.
C17_NotConfigured ==
    \A p \in Procs :
        Took(p) /\ ~req[p].xsuaa =>
            /\ Done(p) /\ outcome[p] = "xsuaa_not_configured"
            /\ calls[p] = 0 /\ writes[p] = <<>> /\ path[p] = "none"
            /\ cookie[p] = NoId

\* A callback with a code arrived without credentials while users existed.
C17_Witness ==
    \E p \in Procs :
        /\ Took(p) /\ ~req[p].xsuaa
        /\ req[p].action = "callback" /\ req[p].code = "code"
        /\ users # {}

\* C18: with credentials, a callback without a code, or with an empty one,
\* is answered at once with the no_code redirect: no call to the token
\* endpoint, no write, no cookie.
C18_NoCode ==
    \A p \in Procs :
        Took(p) /\ req[p].xsuaa /\ req[p].action = "callback"
                /\ req[p].code \in {Undef, ""} =>
            /\ Done(p) /\ outcome[p] = "no_code"
            /\ calls[p] = 0 /\ writes[p] = <<>> /\ path[p] = "none"
            /\ cookie[p] = NoId

\* One callback came without a code, the other with an empty one.
C18_Witness ==
    \E p, q \in Procs :
        /\ Took(p) /\ req[p].xsuaa /\ req[p].action = "callback"
        /\ req[p].code = Undef
        /\ Took(q) /\ req[q].xsuaa /\ req[q].action = "callback"
        /\ req[q].code = ""

\* C19 (as claimed): an invocation sends at most one request to the token
\* endpoint; when the answer has a non-success status it ends with the
\* token_exchange_failed redirect, sets no cookie and writes nothing.
C19_NoRetry ==
    \A p \in Procs :
        /\ calls[p] <= 1
        /\ exchange[p] \in {"not_ok", "not_ok_unread"} =>
              /\ Done(p) /\ outcome[p] = "token_exchange_failed"
              /\ calls[p] = 1 /\ writes[p] = <<>> /\ cookie[p] = NoId

\* The redirects of the login page's error codes.
ErrorCodes ==
    {"no_code", "token_exchange_failed", "callback_failed", "xsuaa_not_configured"}

\* C20: every callback request ends with the success redirect or with a
\* redirect carrying one of the four error codes, whatever failed: the
\* exchange, the decoding, a missing subject, a store fault or a refused
\* statement; a failed one sets no cookie.
C20_AllCaught ==
    \A p \in Procs :
        Done(p) /\ req[p].action = "callback" =>
            /\ outcome[p] \in ErrorCodes \cup {"dashboard"}
            /\ outcome[p] \in ErrorCodes => cookie[p] = NoId
            /\ exchange[p] \in {"rejects", "undecodable", "not_ok_unread"}
                 => outcome[p] = "callback_failed"
            /\ exchange[p] = "not_ok" => outcome[p] = "token_exchange_failed"
            /\ faulted[p] \/ MissingSubject(p) => outcome[p] = "callback_failed"
            /\ outcome[p] = "dashboard" =>
                 exchange[p] = "ok" /\ ~faulted[p] /\ ~MissingSubject(p)

\* One callback failed on a store fault after its user insert, the other on
\* a network fault of the exchange.
C20_Witness ==
    \E p, q \in Procs :
        /\ Done(p) /\ faulted[p] /\ Len(writes[p]) >= 1
        /\ outcome[p] = "callback_failed"
        /\ Done(q) /\ exchange[q] = "rejects" /\ outcome[q] = "callback_failed"

\* C21: every SSO callback invocation eventually ends with a response: a
\* request waiting for the token endpoint is answered in the end (by the
\* endpoint's answer or by a timeout cutting the exchange off).
C21_EventuallyResponds == \A p \in Procs : (pc[p] = "fetch") ~> Done(p)

\* C22: the derived fields follow first-match-wins rules: the subject is sub,
\* else user_id; the email is the email claim, else subject@sap.xsuaa (so two
\* identities without an email claim and with distinct subjects get distinct
\* emails); the display name is the trimmed "given family" when a given name
\* is present, also when the family name is absent, else user_name, else the
\* part of the email before the '@'.
Present(v) == ~Falsy(v)

C22_FirstMatchWins ==
    /\ call.fn = "deriveUser" =>
         LET c == call.arg
             r == call.result
             subject == IF Present(c.sub) THEN c.sub ELSE c.user_id
             email == IF c.email # NoEmail THEN c.email ELSE <<subject, "sap.xsuaa">>
             family == IF c.family_name = Undef THEN "" ELSE c.family_name
         IN  /\ r.xsuaaSubject = subject
             /\ r.email = email
             /\ r.name = IF Present(c.given_name)
                            THEN Trim(Pieces(<<c.given_name, " ", family>>))
                         ELSE IF Present(c.user_name) THEN <<c.user_name>>
                         ELSE <<email[1]>>
    /\ \A c, d \in TokenPayloads :
         /\ c.email = NoEmail /\ d.email = NoEmail
         /\ Present(SubjectOf(c)) /\ Present(SubjectOf(d))
         /\ SubjectOf(c) # SubjectOf(d)
         => EmailOf(c) # EmailOf(d) /\ EmailOf(c) # NoEmail

\* The 62 characters of the alphabet.
Alphabet == {chars[k] : k \in 1 .. Len(chars)}

\* Two vectors of random bytes that select the same characters.
SameModulo(v, w) ==
    /\ Len(v) = Len(w)
    /\ \A i \in 1 .. Len(v) : v[i] % Len(chars) = w[i] % Len(chars)

\* C23 (as stated): generateId(n) returns exactly n characters of the
\* 62-character alphabet whatever the random bytes, and no two tokens
\* generated by any two calls are equal.
C23_NoTwoEqual ==
    call.fn = "generateId" =>
        /\ Len(call.result) = call.arg.length
        /\ \A i \in 1 .. Len(call.result) : call.result[i] \in Alphabet
        /\ \A b \in 1 .. Len(call.before) : call.before[b].result # call.result

\* C23 (amended): generateId(n) returns exactly n characters of the
\* 62-character alphabet whatever the random bytes (every byte value selects
\* a character of it), and two calls return equal tokens exactly when their
\* random bytes agree modulo 62 at every position.
C23_LengthAndAlphabet ==
    /\ Cardinality(Alphabet) = 62
    /\ \A b \in Uint8 : chars[(b % Len(chars)) + 1] \in Alphabet
    /\ call.fn = "generateId" =>
         /\ Len(call.result) = call.arg.length
         /\ \A i \in 1 .. Len(call.result) : call.result[i] \in Alphabet
         /\ \A b \in 1 .. Len(call.before) :
               call.before[b].result = call.result
               <=> SameModulo(call.before[b].randomValues, call.arg.randomValues)

\* Two calls whose random bytes differ return the same two-character token.
C23_Witness ==
    /\ call.fn = "generateId"
    /\ Len(call.result) = 2
    /\ call.before # <<>>
    /\ call.before[1].result = call.result
    /\ call.before[1].randomValues # call.arg.randomValues

\* C24: the access-token expiry stored on a new accounts row is the creation
\* time plus expires_in seconds for every expires_in the provider returns,
\* and the creation time plus 3600 seconds when the provider omits it.
C24_ExpiryFromExpiresIn ==
    call.fn = "accessTokenExpiresAt" =>
        LET t == call.arg.dateNow
            e == call.arg.expires_in
        IN  call.result = IF e = <<>> THEN t + 3600 * 1000 ELSE t + e[1] * 1000

Lookups == {"getXsuaaConfig", "getXsuaaCredentials"}

\* C25: the SSO client credentials are discovered at most once per process:
\* once a lookup has returned credentials, every later lookup returns the
\* same credentials without reading the environment, whatever the
\* environment holds by then; a lookup that found nothing leaves the cache
\* empty.
C25_DiscoveredOnce ==
    call.fn \in Lookups =>
        /\ call.later => call.result = found /\ ~call.read
        /\ call.fn = "getXsuaaConfig" /\ call.result = NoCredentials
             => cachedCredentials = NoCredentials

\* C26: once a users row carries a subject, no step of an SSO callback
\* changes it: a callback with another subject whose claims yield that
\* user's email does not overwrite the link.
C26_SubjectNeverChanges ==
    [][\A u \in users :
          u.xsuaaSubject # Null =>
              \A v \in users' : v.id = u.id => v.xsuaaSubject = u.xsuaaSubject]_vars

\* C27: whenever an SSO callback for subject s ends with a session cookie,
\* the sessions row it inserts is owned by the user who carries subject s in
\* the store at the moment of the insert, under every interleaving.
C27_SessionOfSubject ==
    [][\A p \in Procs :
          cookie'[p] # NoId /\ cookie[p] = NoId =>
              \A x \in sessions' \ sessions :
                  \E u \in users :
                      u.id = x.userId /\ u.xsuaaSubject = SubjectOf(claims[p])]_vars

\* C28: no two accounts rows share the provider and the provider-assigned
\* account id, in every state any sequence of SSO callbacks reaches.
C28_OneAccountPerIdentity ==
    \A a, b \in accounts :
        a.providerId = b.providerId /\ a.accountId = b.accountId => a = b

\* C29: getXsuaaUserFromHeaders returns a user only for an identity that
\* xsuaaMiddleware validated: with XSUAA enabled, a request without a bearer
\* token or with a token that fails validation is answered 401 and not
\* forwarded; and in every configuration the user the handler reads is the
\* validated one, never x-xsuaa-* values the client supplied.
C29_OnlyValidatedIdentity ==
    call.fn = "xsuaaMiddleware" =>
        /\ call.enabled /\ call.validation \in {"none", "null"}
             => call.answer.kind = "401" /\ call.answer.headers = <<>>
        /\ call.user # <<>> =>
             /\ call.validated # <<>>
             /\ call.user[1].id = call.validated[1].id
             /\ call.user[1].email = call.validated[1].email
             /\ call.user[1].scopes = call.validated[1].scopes

ScopeChecks == {"checkScope", "hasReadAccess", "hasWriteAccess", "hasAdminAccess"}

\* C30: checkScope(user, scope) is true if and only if the XSUAA
\* configuration is available and the user's scopes contain scope or
\* xsappname.scope; without configuration it is false for every user and
\* scope; hasReadAccess, hasWriteAccess and hasAdminAccess are checkScope
\* for 'read', 'write' and 'admin'.
C30_CheckScope ==
    call.fn \in ScopeChecks =>
        LET granted == call.arg.scopes
            scope == call.arg.scope
            available == call.config # NoCredentials
        IN  /\ call.result <=>
                  /\ available
                  /\ \/ <<scope>> \in granted
                     \/ <<call.config[1], ".", scope>> \in granted
            /\ ~available => ~call.result
            /\ call.fn = "hasReadAccess" => scope = "read"
            /\ call.fn = "hasWriteAccess" => scope = "write"
            /\ call.fn = "hasAdminAccess" => scope = "admin"

\* hasAdminAccess grants a user whose only admin scope is the qualified one.
C30_Witness ==
    /\ call.fn = "hasAdminAccess"
    /\ call.result
    /\ <<"admin">> \notin call.arg.scopes
    /\ <<"app", ".", "admin">> \in call.arg.scopes

====
